---- MODULE Spec2Model ----
(***************************************************************************)
(* Model of the VTF texture container decoder of src/vtf_parser.py:        *)
(* VtfFile.parse, VtfFile.calculate_image_size, VtfFile.convert_to_rgba,   *)
(* VtfFile._convert_format_to_rgba and the DXT1/DXT3/DXT5 decompressors.   *)
(*                                                                         *)
(* Byte strings are sequences over 0..255; Python offset k is index k+1.   *)
(* Three specifications share the variables:                               *)
(*   Spec        a file is loaded, parsed, and its level 0 converted;      *)
(*   DecodeSpec  one direct call of _convert_format_to_rgba;               *)
(*   SizeSpec    one direct call of calculate_image_size.                  *)
(***************************************************************************)
EXTENDS Integers, Sequences, FiniteSets

VARIABLES data, vtf, call, ret

vars == <<data, vtf, call, ret>>

(***************************************************************************)
(* Bounds of the model.                                                    *)
(***************************************************************************)
\* calculate_image_size is called for widths and heights 0..MaxSizeDim
MaxSizeDim == 9
\* _convert_format_to_rgba is called for widths and heights 0..MaxDim, on
\* raw data of 0..MaxRawLen bytes filled by one of the patterns 0..MaxSeed
MaxDim == 5
MaxRawLen == 33
MaxSeed == 2
\* a file holds 0..MaxPayload bytes after its 80-byte header, and its header
\* declares 0..MaxMips mip levels
MaxPayload == 24
MaxMips == 3
\* format codes handed to calculate_image_size range over -2..MaxFormatCode
MaxFormatCode == 28

(***************************************************************************)
(* class VtfImageFormat(IntEnum)                                           *)
(***************************************************************************)
NONE == -1
RGBA8888 == 0
ABGR8888 == 1
RGB888 == 2
BGR888 == 3
RGB565 == 4
I8 == 5
IA88 == 6
P8 == 7
A8 == 8
RGB888_BLUESCREEN == 9
BGR888_BLUESCREEN == 10
ARGB8888 == 11
BGRA8888 == 12
DXT1 == 13
DXT3 == 14
DXT5 == 15
BGRX8888 == 16
BGR565 == 17
BGRX5551 == 18
BGRA4444 == 19
DXT1_ONEBITALPHA == 20
BGRA5551 == 21
UV88 == 22
UVWQ8888 == 23
RGBA16161616F == 24
RGBA16161616 == 25
UVLX8888 == 26

\* the members of the enum: VtfImageFormat(v) raises ValueError for any other v
VtfImageFormat == NONE..UVLX8888

Max(a, b) == IF a >= b THEN a ELSE b
Min(a, b) == IF a <= b THEN a ELSE b

(***************************************************************************)
(* VtfFile.calculate_image_size                                            *)
(***************************************************************************)
\* the membership test that selects the block-compressed formats
IsBlockFormat(format) == format \in {DXT1, DXT1_ONEBITALPHA, DXT3, DXT5}

\* width = max(4, width) / height = max(4, height) for block formats
BlockDim(format, dim) == IF IsBlockFormat(format) THEN Max(4, dim) ELSE dim

\* the size_map dictionary; OTHER is size_map.get's default
size_map(format, width, height) ==
    CASE format = RGBA8888 -> width * height * 4
      [] format = ABGR8888 -> width * height * 4
      [] format = RGB888 -> width * height * 3
      [] format = BGR888 -> width * height * 3
      [] format = RGB565 -> width * height * 2
      [] format = I8 -> width * height
      [] format = IA88 -> width * height * 2
      [] format = P8 -> width * height
      [] format = A8 -> width * height
      [] format = ARGB8888 -> width * height * 4
      [] format = BGRA8888 -> width * height * 4
      [] format = DXT1 -> ((width + 3) \div 4) * ((height + 3) \div 4) * 8
      [] format = DXT1_ONEBITALPHA -> ((width + 3) \div 4) * ((height + 3) \div 4) * 8
      [] format = DXT3 -> ((width + 3) \div 4) * ((height + 3) \div 4) * 16
      [] format = DXT5 -> ((width + 3) \div 4) * ((height + 3) \div 4) * 16
      [] format = BGRX8888 -> width * height * 4
      [] format = BGR565 -> width * height * 2
      [] format = BGRX5551 -> width * height * 2
      [] format = BGRA4444 -> width * height * 2
      [] format = BGRA5551 -> width * height * 2
      [] format = UV88 -> width * height * 2
      [] format = UVWQ8888 -> width * height * 4
      [] format = RGBA16161616F -> width * height * 8
      [] format = RGBA16161616 -> width * height * 8
      [] format = UVLX8888 -> width * height * 4
      [] OTHER -> width * height * 4

\* mutants: the block formats' dimensions not raised to 4; RGB888 sized as a
\* 32-bit format
calculate_image_size_NoClamp(format, width, height) ==
    size_map(format, width, height)
calculate_image_size_Rgb888As4(format, width, height) ==
    IF format = RGB888 THEN width * height * 4
    ELSE size_map(format, BlockDim(format, width), BlockDim(format, height))
calculate_image_size(format, width, height) ==
    size_map(format, BlockDim(format, width), BlockDim(format, height))

(***************************************************************************)
(* Values returned by a call.                                              *)
(***************************************************************************)
Pending == [kind |-> "pending"]
RetNone == [kind |-> "None"]
RetInt(n) == [kind |-> "int", value |-> n]
RetBytes(b) == [kind |-> "bytes", bytes |-> b]

Idle == [op |-> "idle"]
Unparsed == [kind |-> "unparsed"]

\* Python's None where a byte string is expected (no byte is negative)
None == <<-1>>

(***************************************************************************)
(* struct.unpack_from and slicing.  A 32-bit word is assembled from its    *)
(* bytes; the files of the model keep the top byte of every unsigned word  *)
(* below 128.                                                              *)
(***************************************************************************)
ByteAt(d, off) == d[off + 1]
U8(d, off) == ByteAt(d, off)
U16(d, off) == ByteAt(d, off) + 256 * ByteAt(d, off + 1)
U32(d, off) ==
    ByteAt(d, off) + 256 * ByteAt(d, off + 1) + 65536 * ByteAt(d, off + 2)
        + 16777216 * ByteAt(d, off + 3)
\* '<i': two's complement
S32(d, off) ==
    ByteAt(d, off) + 256 * ByteAt(d, off + 1) + 65536 * ByteAt(d, off + 2)
        + 16777216 * (IF ByteAt(d, off + 3) >= 128 THEN ByteAt(d, off + 3) - 256
                      ELSE ByteAt(d, off + 3))
\* unpack_from raises struct.error unless the buffer holds off .. off+size-1
CanRead(d, off, size) == off + size <= Len(d)

\* d[a:b] for 0 <= a: both ends are clipped to len(d)
Slice(d, a, b) == SubSeq(d, Min(a, Len(d)) + 1, Min(b, Len(d)))

Pow2(n) == 2 ^ n
\* mutant: the shift is one bit too far
Shr_OneMore(v, n) == v \div Pow2(n + 1)
\* v >> n
Shr(v, n) == v \div Pow2(n)

(***************************************************************************)
(* VtfFile.parse                                                           *)
(***************************************************************************)
VTF_SIGNATURE == 4609110
MinFileSize == 80

\* mutant: the length check admits every file that holds the 64-byte header
TooSmall_64(d) == Len(d) < 64
\* if len(data) < 80
TooSmall(d) == Len(d) < MinFileSize

\* mutant: the signature is not compared
BadSignature_Never(signature) == FALSE
\* if vtf.signature != VtfFile.VTF_SIGNATURE
BadSignature(signature) == signature # VTF_SIGNATURE

\* Version 7.2+ has depth
HasDepth(version_major, version_minor) == version_major >= 7 /\ version_minor >= 2

\* mutant: a level is extracted only when its offset is positive
MipFits_Positive(current_offset) == current_offset > 0
\* if current_offset >= 0
MipFits(current_offset) == current_offset >= 0

\* mutants: the cursor moves towards the end of the file; the cursor skips
\* one more byte for each level
NextOffset_Forward(current_offset, mip_size) == current_offset + mip_size
NextOffset_Gap(current_offset, mip_size) == current_offset - mip_size - 1
\* current_offset -= mip_size
NextOffset(current_offset, mip_size) == current_offset - mip_size

\* mutant: the header's frame count is used as it is
FrameCount_Raw(frames) == frames
\* frame_count = max(1, vtf.frames)
FrameCount(frames) == Max(1, frames)

\* the body of "for mip in range(vtf.mip_count)" from level mip on; mip_data
\* and mip_offset (each level's current_offset, which the code does not keep)
\* are the lists built so far
RECURSIVE MipLoop(_, _, _, _, _, _)
MipLoop(d, h, mip, current_offset, mip_data, mip_offset) ==
    IF mip >= h.mip_count THEN [mip_data |-> mip_data, mip_offset |-> mip_offset]
    ELSE LET mip_width == Max(1, Shr(h.width, mip))
             mip_height == Max(1, Shr(h.height, mip))
             frame_count == FrameCount(h.frames)
             mip_size == calculate_image_size(h.high_res_format, mip_width, mip_height)
                            * frame_count
             offset == NextOffset(current_offset, mip_size)
         IN MipLoop(d, h, mip + 1, offset,
                    Append(mip_data,
                           IF MipFits(offset) THEN Slice(d, offset, offset + mip_size)
                           ELSE None),
                    Append(mip_offset, offset))

\* mutant: the thumbnail's sides are not tested
HasThumbnail_FormatOnly(h) == h.low_res_format # NONE
\* the thumbnail: present when the format is not NONE and both sides are > 0
HasThumbnail(h) ==
    h.low_res_format # NONE /\ h.low_res_width > 0 /\ h.low_res_height > 0
ThumbSize(h) ==
    calculate_image_size(h.low_res_format, h.low_res_width, h.low_res_height)

\* the scalar header fields (reflectivity and bump_scale, floats the decoder
\* only forwards, are read but not kept in the model)
HeaderFields(d) ==
    [signature |-> U32(d, 0),
     version_major |-> U32(d, 4),
     version_minor |-> U32(d, 8),
     header_size |-> U32(d, 12),
     width |-> U16(d, 16),
     height |-> U16(d, 18),
     flags |-> U32(d, 20),
     frames |-> U16(d, 24),
     first_frame |-> U16(d, 26),
     high_res_format |-> S32(d, 52),
     mip_count |-> U8(d, 56),
     low_res_format |-> S32(d, 57),
     low_res_width |-> U8(d, 61),
     low_res_height |-> U8(d, 62),
     depth |-> IF HasDepth(U32(d, 4), U32(d, 8)) THEN U16(d, 63) ELSE 1]

\* mutant: the level loop runs at least once, as if mip_count >= 1
Container_AtLeastOneLevel(d, h) ==
    LET mips == MipLoop(d, [h EXCEPT !.mip_count = Max(1, h.mip_count)], 0, Len(d),
                        <<>>, <<>>)
    IN [kind |-> "vtf",
        read_end |-> IF HasDepth(h.version_major, h.version_minor) THEN 65 ELSE 63,
        header |-> h,
        thumbnail_data |-> IF HasThumbnail(h)
                           THEN Slice(d, h.header_size, h.header_size + ThumbSize(h))
                           ELSE None,
        mip_data |-> mips.mip_data,
        mip_offset |-> mips.mip_offset]

\* the container parse returns once every field is read
Container(d, h) ==
    LET mips == MipLoop(d, h, 0, Len(d), <<>>, <<>>)
    IN [kind |-> "vtf",
        read_end |-> IF HasDepth(h.version_major, h.version_minor) THEN 65 ELSE 63,
        header |-> h,
        thumbnail_data |-> IF HasThumbnail(h)
                           THEN Slice(d, h.header_size, h.header_size + ThumbSize(h))
                           ELSE None,
        mip_data |-> mips.mip_data,
        mip_offset |-> mips.mip_offset]

\* What parse(data) gives: None, an exception, or the container.  read_end is
\* the end of the farthest header field parse asked unpack_from for.
ParseNone(read_end) == [kind |-> "None", read_end |-> read_end]
ParseRaised(exc, read_end) == [kind |-> "raised", exc |-> exc, read_end |-> read_end]

parse(d) ==
    IF TooSmall(d) THEN ParseNone(0)
    ELSE IF ~CanRead(d, 0, 4) THEN ParseRaised("struct.error", 4)
    ELSE IF BadSignature(U32(d, 0)) THEN ParseNone(4)
    ELSE IF ~CanRead(d, 52, 4) THEN ParseRaised("struct.error", 56)
    ELSE IF S32(d, 52) \notin VtfImageFormat THEN ParseRaised("ValueError", 56)
    ELSE IF ~CanRead(d, 57, 4) THEN ParseRaised("struct.error", 61)
    ELSE IF S32(d, 57) \notin VtfImageFormat THEN ParseRaised("ValueError", 61)
    ELSE IF ~CanRead(d, 62, 1) THEN ParseRaised("struct.error", 63)
    ELSE IF HasDepth(U32(d, 4), U32(d, 8)) /\ ~CanRead(d, 63, 2)
         THEN ParseRaised("struct.error", 65)
    ELSE Container(d, HeaderFields(d))

(***************************************************************************)
(* VtfFile._convert_format_to_rgba and the block decompressors.  A buffer  *)
(* is a sequence of bytes; rgba[off] is index off + 1.                     *)
(***************************************************************************)
\* mutant: three bytes are allocated for each pixel
NewBuffer_3(width, height) == [j \in 1..(width * height * 3) |-> 0]
\* rgba = bytearray(width * height * 4)
NewBuffer(width, height) == [j \in 1..(width * height * 4) |-> 0]

\* rgba[off], rgba[off+1], rgba[off+2], rgba[off+3] = px
Put4(rgba, off, px) ==
    [rgba EXCEPT ![off + 1] = px[1], ![off + 2] = px[2],
                 ![off + 3] = px[3], ![off + 4] = px[4]]

\* mutant: the last byte of the copied prefix is left as allocated
CopyRGBA8888_DropLast(d, rgba) ==
    LET m == Max(0, Min(Len(d), Len(rgba)) - 1)
    IN SubSeq(d, 1, m) \o SubSeq(rgba, m + 1, Len(rgba))
\* rgba[:m] = data[:m] with m = min(len(data), len(rgba))
CopyRGBA8888(d, rgba) ==
    LET m == Min(Len(d), Len(rgba))
    IN SubSeq(d, 1, m) \o SubSeq(rgba, m + 1, Len(rgba))

\* the formats with a per-pixel loop
PixelFormats == {BGRA8888, RGB888, BGR888, I8, A8, ARGB8888}

\* source bytes per pixel in the loop of each format
SrcStride(format) ==
    CASE format \in {BGRA8888, ARGB8888} -> 4
      [] format \in {RGB888, BGR888} -> 3
      [] format \in {I8, A8} -> 1

\* the loop's break test: "if i * 4 + 3 >= len(data)", "if i * 3 + 2 >= len(data)",
\* "if i >= len(data)"
PixelMissing(format, d, i) ==
    i * SrcStride(format) + (SrcStride(format) - 1) >= Len(d)

\* mutant: BGR888 is read in the order of RGB888
PixelOf_BgrUnswapped(format, d, i) ==
    CASE format = BGRA8888 ->
            <<ByteAt(d, i * 4 + 2), ByteAt(d, i * 4 + 1), ByteAt(d, i * 4 + 0),
              ByteAt(d, i * 4 + 3)>>
      [] format \in {RGB888, BGR888} ->
            <<ByteAt(d, i * 3 + 0), ByteAt(d, i * 3 + 1), ByteAt(d, i * 3 + 2), 255>>
      [] format = I8 -> <<ByteAt(d, i), ByteAt(d, i), ByteAt(d, i), 255>>
      [] format = A8 -> <<255, 255, 255, ByteAt(d, i)>>
      [] format = ARGB8888 ->
            <<ByteAt(d, i * 4 + 1), ByteAt(d, i * 4 + 2), ByteAt(d, i * 4 + 3),
              ByteAt(d, i * 4 + 0)>>

\* the four assignments of the loop body for pixel i
PixelOf(format, d, i) ==
    CASE format = BGRA8888 ->
            <<ByteAt(d, i * 4 + 2), ByteAt(d, i * 4 + 1), ByteAt(d, i * 4 + 0),
              ByteAt(d, i * 4 + 3)>>
      [] format = RGB888 ->
            <<ByteAt(d, i * 3 + 0), ByteAt(d, i * 3 + 1), ByteAt(d, i * 3 + 2), 255>>
      [] format = BGR888 ->
            <<ByteAt(d, i * 3 + 2), ByteAt(d, i * 3 + 1), ByteAt(d, i * 3 + 0), 255>>
      [] format = I8 -> <<ByteAt(d, i), ByteAt(d, i), ByteAt(d, i), 255>>
      [] format = A8 -> <<255, 255, 255, ByteAt(d, i)>>
      [] format = ARGB8888 ->
            <<ByteAt(d, i * 4 + 1), ByteAt(d, i * 4 + 2), ByteAt(d, i * 4 + 3),
              ByteAt(d, i * 4 + 0)>>

\* "for i in range(width * height)" from pixel i on, n = width * height
RECURSIVE PixelLoop(_, _, _, _, _)
PixelLoop(format, d, rgba, i, n) ==
    IF i >= n THEN rgba
    ELSE IF PixelMissing(format, d, i) THEN rgba
    ELSE PixelLoop(format, d, Put4(rgba, i * 4, PixelOf(format, d, i)), i + 1, n)

\* mutant: the fallback leaves the buffer as allocated
GrayFill_None(rgba) == rgba
\* the else branch: every pixel becomes (128, 128, 128, 255)
GrayFill(rgba) == [j \in 1..Len(rgba) |-> IF (j - 1) % 4 = 3 THEN 255 ELSE 128]

\* (v >> bitpos) & (2^nbits - 1) for the little-endian integer whose bytes
\* start at offset base of c; nbits <= 8, and only the one or two bytes that
\* hold the field are assembled
BitField(c, base, bitpos, nbits) ==
    LET lo == bitpos \div 8
        sh == bitpos % 8
        word == ByteAt(c, base + lo)
                  + (IF sh + nbits > 8 THEN 256 * ByteAt(c, base + lo + 1) ELSE 0)
    IN Shr(word, sh) % Pow2(nbits)

\* mutant: the channels are widened by bit replication instead of * 255 // max
decode_rgb565_BitReplicate(color) ==
    <<(Shr(color, 11) % 32) * 8 + (Shr(color, 11) % 32) \div 4,
      (Shr(color, 5) % 64) * 4 + (Shr(color, 5) % 64) \div 16,
      (color % 32) * 8 + (color % 32) \div 4>>
\* _decode_rgb565
decode_rgb565(color) ==
    <<((Shr(color, 11) % 32) * 255) \div 31,
      ((Shr(color, 5) % 64) * 255) \div 63,
      ((color % 32) * 255) \div 31>>

\* mutant: equal endpoints select the four-colour palette too
FourColour_GE(c0, c1) == c0 >= c1
\* if c0 > c1
FourColour(c0, c1) == c0 > c1

\* the colours list of _decompress_dxt1: entry k of the palette of the block
\* at block_offset, as (r, g, b, a)
Dxt1Palette(c, block_offset, k) ==
    LET c0 == U16(c, block_offset)
        c1 == U16(c, block_offset + 2)
        p0 == decode_rgb565(c0)
        p1 == decode_rgb565(c1)
    IN CASE k = 0 -> <<p0[1], p0[2], p0[3], 255>>
         [] k = 1 -> <<p1[1], p1[2], p1[3], 255>>
         [] k = 2 -> IF FourColour(c0, c1)
                     THEN <<(2 * p0[1] + p1[1]) \div 3, (2 * p0[2] + p1[2]) \div 3,
                            (2 * p0[3] + p1[3]) \div 3, 255>>
                     ELSE <<(p0[1] + p1[1]) \div 2, (p0[2] + p1[2]) \div 2,
                            (p0[3] + p1[3]) \div 2, 255>>
         [] k = 3 -> IF FourColour(c0, c1)
                     THEN <<(p0[1] + 2 * p1[1]) \div 3, (p0[2] + 2 * p1[2]) \div 3,
                            (p0[3] + 2 * p1[3]) \div 3, 255>>
                     ELSE <<0, 0, 0, 0>>

\* mutant: the colour block switches to the three-colour palette with black
\* when c0 <= c1, as in DXT1
ColorPalette4_ThreeColour(c, color_offset, k) ==
    LET c0 == U16(c, color_offset)
        c1 == U16(c, color_offset + 2)
        p0 == decode_rgb565(c0)
        p1 == decode_rgb565(c1)
    IN CASE k = 0 -> p0
         [] k = 1 -> p1
         [] k = 2 -> IF c0 > c1
                     THEN <<(2 * p0[1] + p1[1]) \div 3, (2 * p0[2] + p1[2]) \div 3,
                            (2 * p0[3] + p1[3]) \div 3>>
                     ELSE <<(p0[1] + p1[1]) \div 2, (p0[2] + p1[2]) \div 2,
                            (p0[3] + p1[3]) \div 2>>
         [] k = 3 -> IF c0 > c1
                     THEN <<(p0[1] + 2 * p1[1]) \div 3, (p0[2] + 2 * p1[2]) \div 3,
                            (p0[3] + 2 * p1[3]) \div 3>>
                     ELSE <<0, 0, 0>>

\* the colours list of _decompress_dxt3 and _decompress_dxt5: always the
\* four-colour interpolation, (r, g, b) of entry k
ColorPalette4(c, color_offset, k) ==
    LET p0 == decode_rgb565(U16(c, color_offset))
        p1 == decode_rgb565(U16(c, color_offset + 2))
    IN CASE k = 0 -> p0
         [] k = 1 -> p1
         [] k = 2 -> <<(2 * p0[1] + p1[1]) \div 3, (2 * p0[2] + p1[2]) \div 3,
                       (2 * p0[3] + p1[3]) \div 3>>
         [] k = 3 -> <<(p0[1] + 2 * p1[1]) \div 3, (p0[2] + 2 * p1[2]) \div 3,
                       (p0[3] + 2 * p1[3]) \div 3>>

\* mutant: equal alpha endpoints select the eight-value palette too
Dxt5AlphaPalette_GE(a0, a1, k) ==
    CASE k = 0 -> a0
      [] k = 1 -> a1
      [] k \in 2..7 /\ a0 >= a1 -> ((8 - k) * a0 + (k - 1) * a1) \div 7
      [] k \in 2..5 /\ a0 < a1 -> ((6 - k) * a0 + (k - 1) * a1) \div 5
      [] k = 6 /\ a0 < a1 -> 0
      [] k = 7 /\ a0 < a1 -> 255
\* alpha_palette of _decompress_dxt5, entry k
Dxt5AlphaPalette(a0, a1, k) ==
    CASE k = 0 -> a0
      [] k = 1 -> a1
      [] k \in 2..7 /\ a0 > a1 -> ((8 - k) * a0 + (k - 1) * a1) \div 7
      [] k \in 2..5 /\ a0 <= a1 -> ((6 - k) * a0 + (k - 1) * a1) \div 5
      [] k = 6 /\ a0 <= a1 -> 0
      [] k = 7 /\ a0 <= a1 -> 255

\* the (r, g, b, a) the decompressor of format writes for texel t = py * 4 + px
\* of the block at block_offset
Texel(format, c, block_offset, t) ==
    CASE format \in {DXT1, DXT1_ONEBITALPHA} ->
            Dxt1Palette(c, block_offset, BitField(c, block_offset + 4, t * 2, 2))
      [] format = DXT3 ->
            LET rgb == ColorPalette4(c, block_offset + 8,
                                     BitField(c, block_offset + 12, t * 2, 2))
            IN <<rgb[1], rgb[2], rgb[3], BitField(c, block_offset, t * 4, 4) * 17>>
      [] format = DXT5 ->
            LET rgb == ColorPalette4(c, block_offset + 8,
                                     BitField(c, block_offset + 12, t * 2, 2))
            IN <<rgb[1], rgb[2], rgb[3],
                 Dxt5AlphaPalette(ByteAt(c, block_offset), ByteAt(c, block_offset + 1),
                                  BitField(c, block_offset + 2, t * 3, 3))>>

\* bytes of one block: block_index * 8 for DXT1, block_index * 16 for DXT3/DXT5
BlockBytes(format) == IF format \in {DXT1, DXT1_ONEBITALPHA} THEN 8 ELSE 16

\* mutant: only the column of a texel is tested
Skipped_ColumnOnly(x, y, width, height) == x >= width
\* if x >= width or y >= height: continue
Skipped(x, y, width, height) == x >= width \/ y >= height

\* out_offset = (y * width + x) * 4
OutOffset(x, y, width) == (y * width + x) * 4

\* "for py in range(4): for px in range(4)" from texel t on
RECURSIVE TexelLoop(_, _, _, _, _, _, _, _, _)
TexelLoop(format, c, output, width, height, by, bx, block_offset, t) ==
    IF t >= 16 THEN output
    ELSE LET x == bx * 4 + (t % 4)
             y == by * 4 + (t \div 4)
         IN IF Skipped(x, y, width, height)
            THEN TexelLoop(format, c, output, width, height, by, bx, block_offset, t + 1)
            ELSE TexelLoop(format, c,
                           Put4(output, OutOffset(x, y, width),
                                Texel(format, c, block_offset, t)),
                           width, height, by, bx, block_offset, t + 1)

\* the writes of the same loop, in order: for each texel that is not skipped
\* its x, y and the out_offset its four bytes are stored at
RECURSIVE TexelWrites(_, _, _, _, _)
TexelWrites(width, height, by, bx, t) ==
    IF t >= 16 THEN <<>>
    ELSE LET x == bx * 4 + (t % 4)
             y == by * 4 + (t \div 4)
         IN IF Skipped(x, y, width, height)
            THEN TexelWrites(width, height, by, bx, t + 1)
            ELSE <<[x |-> x, y |-> y, out_offset |-> OutOffset(x, y, width)]>>
                    \o TexelWrites(width, height, by, bx, t + 1)

\* if block_offset + 8 > len(compressed) / if block_offset + 16 > len(compressed)
BlockMissing(format, c, block_offset) == block_offset + BlockBytes(format) > Len(c)

\* "for by in range(block_height): for bx in range(block_width)" from block
\* (by, bx) on; the break leaves the row, and block_index stays where it is
RECURSIVE BlockLoop(_, _, _, _, _, _, _, _)
BlockLoop(format, c, output, width, height, by, bx, block_index) ==
    LET block_width == (width + 3) \div 4
        block_height == (height + 3) \div 4
        block_offset == block_index * BlockBytes(format)
    IN IF by >= block_height THEN output
       ELSE IF bx >= block_width
            THEN BlockLoop(format, c, output, width, height, by + 1, 0, block_index)
       ELSE IF BlockMissing(format, c, block_offset)
            THEN BlockLoop(format, c, output, width, height, by + 1, 0, block_index)
       ELSE BlockLoop(format, c,
                      TexelLoop(format, c, output, width, height, by, bx, block_offset, 0),
                      width, height, by, bx + 1, block_index + 1)

\* the writes of the block loops, in order (the same loops as BlockLoop)
RECURSIVE BlockWrites(_, _, _, _, _, _, _)
BlockWrites(format, c, width, height, by, bx, block_index) ==
    LET block_width == (width + 3) \div 4
        block_height == (height + 3) \div 4
        block_offset == block_index * BlockBytes(format)
    IN IF by >= block_height THEN <<>>
       ELSE IF bx >= block_width
            THEN BlockWrites(format, c, width, height, by + 1, 0, block_index)
       ELSE IF BlockMissing(format, c, block_offset)
            THEN BlockWrites(format, c, width, height, by + 1, 0, block_index)
       ELSE TexelWrites(width, height, by, bx, 0)
               \o BlockWrites(format, c, width, height, by, bx + 1, block_index + 1)

decompress_dxt1(compressed, output, width, height) ==
    BlockLoop(DXT1, compressed, output, width, height, 0, 0, 0)
decompress_dxt3(compressed, output, width, height) ==
    BlockLoop(DXT3, compressed, output, width, height, 0, 0, 0)
decompress_dxt5(compressed, output, width, height) ==
    BlockLoop(DXT5, compressed, output, width, height, 0, 0, 0)

\* mutant: the DXT1 branch tests "format == DXT1" alone, and
\* DXT1_ONEBITALPHA falls to the else branch
Branch_Dxt1Only(format) ==
    CASE format = RGBA8888 -> "copy"
      [] format \in PixelFormats -> "pixels"
      [] format = DXT1 -> "dxt1"
      [] format = DXT3 -> "dxt3"
      [] format = DXT5 -> "dxt5"
      [] OTHER -> "gray"

\* the branch of the if/elif chain that format takes
Branch(format) ==
    CASE format = RGBA8888 -> "copy"
      [] format \in PixelFormats -> "pixels"
      [] format \in {DXT1, DXT1_ONEBITALPHA} -> "dxt1"
      [] format = DXT3 -> "dxt3"
      [] format = DXT5 -> "dxt5"
      [] OTHER -> "gray"

\* mutant: the chain has no branch for A8, which falls to the else branch
convert_format_to_rgba_NoA8(d, width, height, format) ==
    LET rgba == NewBuffer(width, height)
    IN CASE format = A8 -> GrayFill(rgba)
         [] Branch(format) = "copy" -> CopyRGBA8888(d, rgba)
         [] Branch(format) = "pixels" -> PixelLoop(format, d, rgba, 0, width * height)
         [] Branch(format) = "dxt1" -> decompress_dxt1(d, rgba, width, height)
         [] Branch(format) = "dxt3" -> decompress_dxt3(d, rgba, width, height)
         [] Branch(format) = "dxt5" -> decompress_dxt5(d, rgba, width, height)
         [] OTHER -> GrayFill(rgba)
convert_format_to_rgba(d, width, height, format) ==
    LET rgba == NewBuffer(width, height)
    IN CASE Branch(format) = "copy" -> CopyRGBA8888(d, rgba)
         [] Branch(format) = "pixels" -> PixelLoop(format, d, rgba, 0, width * height)
         [] Branch(format) = "dxt1" -> decompress_dxt1(d, rgba, width, height)
         [] Branch(format) = "dxt3" -> decompress_dxt3(d, rgba, width, height)
         [] Branch(format) = "dxt5" -> decompress_dxt5(d, rgba, width, height)
         [] Branch(format) = "gray" -> GrayFill(rgba)

\* get_largest_mip_data
get_largest_mip_data(v) == IF Len(v.mip_data) = 0 THEN None ELSE v.mip_data[1]

\* convert_to_rgba
convert_to_rgba(v, force_opaque_alpha) ==
    LET d == get_largest_mip_data(v)
    IN IF d = None THEN RetNone
       ELSE LET rgba == convert_format_to_rgba(d, v.header.width, v.header.height,
                                               v.header.high_res_format)
            IN IF force_opaque_alpha
               THEN RetBytes([j \in 1..Len(rgba) |->
                                 IF (j - 1) % 4 = 3 THEN 255 ELSE rgba[j]])
               ELSE RetBytes(rgba)

(***************************************************************************)
(* SizeSpec: one call of calculate_image_size on drawn arguments.          *)
(***************************************************************************)
FormatCodes == (-2)..MaxFormatCode

InitSize ==
    /\ data = <<>>
    /\ vtf = Unparsed
    /\ \E format \in FormatCodes, width \in 0..MaxSizeDim, height \in 0..MaxSizeDim :
          call = [op |-> "calculate_image_size", format |-> format,
                  width |-> width, height |-> height]
    /\ ret = Pending

CalcSize ==
    /\ call.op = "calculate_image_size"
    /\ ret = Pending
    /\ ret' = RetInt(calculate_image_size(call.format, call.width, call.height))
    /\ UNCHANGED <<data, vtf, call>>

NextSize == CalcSize

SizeSpec == InitSize /\ [][NextSize]_vars

(***************************************************************************)
(* DecodeSpec: one call of _convert_format_to_rgba on drawn arguments.     *)
(***************************************************************************)
\* byte i of the raw data pattern seed.  Patterns 0, 3, ... have rising
\* bytes (in a DXT1 block c0 < c1), patterns 1, 4, ... falling bytes
\* (c0 > c1); in patterns 2, 5, ... the first four bytes of every 8 are one
\* value (c0 = c1, and a0 = a1 in a DXT5 block) and the next four vary
RawByte(seed, i) ==
    CASE seed % 3 = 0 -> (11 + seed + i * 37) % 256
      [] seed % 3 = 1 -> (250 - seed - i * 37) % 256
      [] seed % 3 = 2 -> IF i % 8 < 4 THEN 88 + seed ELSE (27 + i * 37) % 256
RawData(seed, n) == [j \in 1..n |-> RawByte(seed, j - 1)]

InitDecode ==
    /\ data = <<>>
    /\ vtf = Unparsed
    /\ \E format \in VtfImageFormat, width \in 0..MaxDim, height \in 0..MaxDim,
          n \in 0..MaxRawLen, seed \in 0..MaxSeed :
          call = [op |-> "_convert_format_to_rgba", format |-> format,
                  width |-> width, height |-> height,
                  data |-> RawData(seed, n), seed |-> seed]
    /\ ret = Pending

ConvertFormat ==
    /\ call.op = "_convert_format_to_rgba"
    /\ ret = Pending
    /\ ret' = RetBytes(convert_format_to_rgba(call.data, call.width, call.height,
                                              call.format))
    /\ UNCHANGED <<data, vtf, call>>

NextDecode == ConvertFormat

DecodeSpec == InitDecode /\ [][NextDecode]_vars

(***************************************************************************)
(* Spec: a file is read, parsed, and its largest level converted.          *)
(***************************************************************************)
\* byte k of the little-endian (two's complement) encoding of v
LEByte(v, k) == (v \div (256 ^ k)) % 256

\* the byte at offset off of the header that declares the fields of f;
\* every byte that is not a field is 0
HeaderByte(f, off) ==
    CASE off \in 0..3 -> LEByte(f.signature, off)
      [] off \in 4..7 -> LEByte(f.version_major, off - 4)
      [] off \in 8..11 -> LEByte(f.version_minor, off - 8)
      [] off \in 12..15 -> LEByte(f.header_size, off - 12)
      [] off \in 16..17 -> LEByte(f.width, off - 16)
      [] off \in 18..19 -> LEByte(f.height, off - 18)
      [] off \in 24..25 -> LEByte(f.frames, off - 24)
      [] off \in 52..55 -> LEByte(f.high_res_format, off - 52)
      [] off = 56 -> f.mip_count
      [] off \in 57..60 -> LEByte(f.low_res_format, off - 57)
      [] off = 61 -> f.low_res_width
      [] off = 62 -> f.low_res_height
      [] off \in 63..64 -> LEByte(f.depth, off - 63)
      [] OTHER -> 0

\* the byte at offset off >= 80 of every file: never 0, so that a slice of
\* pixel data shows where it was taken from
PayloadByte(off) == ((off * 7) % 251) + 1

\* the first n bytes of the file with header f
FileBytes(f, n) ==
    [j \in 1..n |-> IF j <= MinFileSize THEN HeaderByte(f, j - 1) ELSE PayloadByte(j - 1)]

\* the headers the files of the model declare
MipHeaders ==
    [signature : {VTF_SIGNATURE}, version_major : {7}, version_minor : {2},
     header_size : {MinFileSize}, width : {0, 1, 2, 4}, height : {1, 4},
     frames : {0, 1, 2},
     high_res_format : {RGBA8888, I8, DXT1, RGB888_BLUESCREEN, 27, -2},
     mip_count : 0..MaxMips,
     low_res_format : {NONE}, low_res_width : {0}, low_res_height : {0},
     depth : {1}]
ThumbHeaders ==
    [signature : {VTF_SIGNATURE}, version_major : {7}, version_minor : {1, 2},
     header_size : {64, MinFileSize, 88}, width : {4}, height : {4},
     frames : {1},
     high_res_format : {I8},
     mip_count : {1, 2},
     low_res_format : {NONE, DXT1, I8, 27}, low_res_width : {0, 2, 4},
     low_res_height : {0, 4},
     depth : {1}]
VersionHeaders ==
    [signature : {VTF_SIGNATURE}, version_major : {6, 7, 8}, version_minor : {0, 1, 2, 3},
     header_size : {MinFileSize}, width : {2}, height : {2},
     frames : {1},
     high_res_format : {I8},
     mip_count : {1},
     low_res_format : {NONE}, low_res_width : {0}, low_res_height : {0},
     depth : {1, 5}]
BadSignatureHeaders ==
    [signature : {0, VTF_SIGNATURE + 1, VTF_SIGNATURE - 256, VTF_SIGNATURE + 16777216},
     version_major : {7}, version_minor : {2},
     header_size : {MinFileSize}, width : {2}, height : {2},
     frames : {1},
     high_res_format : {I8, 27},
     mip_count : {1, 2},
     low_res_format : {NONE}, low_res_width : {0}, low_res_height : {0},
     depth : {1}]
Headers == MipHeaders \cup ThumbHeaders \cup VersionHeaders \cup BadSignatureHeaders

\* the lengths of the files: some shorter than the header, the others with
\* 0..MaxPayload bytes after it
FileLengths == {0, 3, 4, 64, 79} \cup {MinFileSize + p : p \in 0..MaxPayload}

Init ==
    /\ \E f \in Headers, n \in FileLengths : data = FileBytes(f, n)
    /\ vtf = Unparsed
    /\ call = Idle
    /\ ret = Pending

\* VtfFile.parse(data)
Parse ==
    /\ vtf = Unparsed
    /\ vtf' = parse(data)
    /\ UNCHANGED <<data, call, ret>>

\* mutant: the converted bytes are kept in the container in place of level 0
ConvertToRgba_KeepsResult(force_opaque_alpha) ==
    /\ vtf.kind = "vtf"
    /\ call' = [op |-> "convert_to_rgba", force_opaque_alpha |-> force_opaque_alpha]
    /\ ret' = convert_to_rgba(vtf, force_opaque_alpha)
    /\ vtf' = IF ret'.kind = "bytes" THEN [vtf EXCEPT !.mip_data[1] = ret'.bytes] ELSE vtf
    /\ UNCHANGED data

\* vtf.convert_to_rgba(force_opaque_alpha) on the container parse returned
ConvertToRgba(force_opaque_alpha) ==
    /\ vtf.kind = "vtf"
    /\ call' = [op |-> "convert_to_rgba", force_opaque_alpha |-> force_opaque_alpha]
    /\ ret' = convert_to_rgba(vtf, force_opaque_alpha)
    /\ UNCHANGED <<data, vtf>>

Next ==
    \/ Parse
    \/ \E force_opaque_alpha \in BOOLEAN : ConvertToRgba(force_opaque_alpha)

Spec == Init /\ [][Next]_vars

(***************************************************************************)
(* Properties of VtfFile.parse, checked under Spec.                        *)
(***************************************************************************)
\* "VTF\0", the four bytes a file of this format starts with
MagicBytes == <<86, 84, 70, 0>>
FirstFour(d) == SubSeq(d, 1, 4)
Parsed == vtf.kind # "unparsed"

\* C1: parse returns None, and neither a container nor an exception, for
\* every input whose first four bytes are not the magic constant.
C1_BadSignatureRejected ==
    (Parsed /\ Len(data) >= 4 /\ FirstFour(data) # MagicBytes) => vtf.kind = "None"

\* a file of 80 bytes or more with a wrong signature was parsed and rejected
C1_Witness ==
    /\ vtf.kind = "None"
    /\ Len(data) >= 80
    /\ FirstFour(data) # MagicBytes

\* C2: parse returns None for every input shorter than 80 bytes without
\* reading any header field of it, and on no input does it ask for a header
\* field that ends past the end of the input.
C2_ShortInputRejected ==
    Parsed =>
        /\ Len(data) < 80 => (vtf.kind = "None" /\ vtf.read_end = 0)
        /\ vtf.read_end <= Len(data)
        /\ ~(vtf.kind = "raised" /\ vtf.exc = "struct.error")

\* a 79-byte file that starts with the magic constant was parsed and rejected
C2_Witness ==
    /\ vtf.kind = "None"
    /\ Len(data) = 79
    /\ FirstFour(data) = MagicBytes

\* the byte length of level L and the cursor after level L, from the header
\* fields of the container: file length minus the sizes of levels 0..L
LevelBytes(h, L) ==
    calculate_image_size(h.high_res_format, Max(1, h.width \div (2 ^ L)),
                         Max(1, h.height \div (2 ^ L)))
        * (IF h.frames = 0 THEN 1 ELSE h.frames)
RECURSIVE LevelBytesUpTo(_, _)
LevelBytesUpTo(h, L) ==
    IF L < 0 THEN 0 ELSE LevelBytes(h, L) + LevelBytesUpTo(h, L - 1)
Cursor(h, L) == Len(data) - LevelBytesUpTo(h, L)

C4_UnknownFormatParses ==
    (Parsed /\ Len(data) >= 80 /\ FirstFour(data) = MagicBytes) => vtf.kind = "vtf"

(***************************************************************************)
(* Properties of _convert_format_to_rgba, checked under DecodeSpec.        *)
(***************************************************************************)
Decoded == call.op = "_convert_format_to_rgba" /\ ret # Pending
Pixels == call.width * call.height

\* pixel i (from 0) of a buffer
PixelAt(buf, i) == <<buf[4 * i + 1], buf[4 * i + 2], buf[4 * i + 3], buf[4 * i + 4]>>
IsGray(buf) == \A i \in 0..(Pixels - 1) : PixelAt(buf, i) = <<128, 128, 128, 255>>

\* the formats of the spec's "actually decoded" list
ListedFormats ==
    {RGBA8888, ABGR8888, RGB888, BGR888, RGB565, I8, IA88, P8, A8, ARGB8888,
     BGRA8888, DXT1, DXT3, DXT5, DXT1_ONEBITALPHA}
\* the formats the if/elif chain has a branch for
BranchFormats ==
    {RGBA8888, RGB888, BGR888, I8, A8, ARGB8888, BGRA8888, DXT1, DXT3, DXT5,
     DXT1_ONEBITALPHA}

\* C5: the call returns a buffer of exactly width * height * 4 bytes, each in
\* 0..255, for every format, width, height and raw data length.
C5_OutputLength ==
    Decoded =>
        /\ ret.kind = "bytes"
        /\ Len(ret.bytes) = call.width * call.height * 4
        /\ \A j \in 1..Len(ret.bytes) : ret.bytes[j] \in 0..255

\* a block-compressed 5 x 5 image was decoded from data that ends inside its
\* third block
C5_Witness ==
    /\ Decoded
    /\ call.format = DXT5
    /\ call.width = 5 /\ call.height = 5
    /\ Len(call.data) = 33
    /\ Len(ret.bytes) = 100

\* C6 as stated: no format of the "actually decoded" list yields the gray
\* fill of the unsupported-format fallback.
C6_ListedFormatsDecoded ==
    (Decoded /\ call.format \in ListedFormats /\ Pixels > 0) => ~IsGray(ret.bytes)

\* C6 amended: RGBA8888, RGB888, BGR888, I8, A8, ARGB8888, BGRA8888, DXT1,
\* DXT3, DXT5 and DXT1_ONEBITALPHA are decoded from the source data and never
\* yield the gray fill; ABGR8888, RGB565, IA88 and P8 of the list have no
\* decode branch and always yield it.
C6_BranchFormatsDecoded ==
    /\ (Decoded /\ call.format \in BranchFormats /\ Pixels > 0) => ~IsGray(ret.bytes)
    /\ (Decoded /\ call.format \in ListedFormats \ BranchFormats) => IsGray(ret.bytes)

\* an A8 image was decoded from complete data into something other than gray
C6_Witness ==
    /\ Decoded
    /\ call.format = A8
    /\ Pixels > 0
    /\ Len(call.data) >= Pixels
    /\ \A i \in 0..(Pixels - 1) :
          PixelAt(ret.bytes, i) = <<255, 255, 255, call.data[i + 1]>>

\* C7: for a format without a decode branch the call returns a buffer whose
\* every pixel is (128, 128, 128, 255), whatever the raw data holds.
C7_GrayFallback ==
    (Decoded /\ call.format \in VtfImageFormat \ BranchFormats) =>
        /\ ret.kind = "bytes"
        /\ Len(ret.bytes) = 4 * Pixels
        /\ \A j \in 1..Len(ret.bytes) :
              ret.bytes[j] = (IF j % 4 = 0 THEN 255 ELSE 128)

\* an RGB565 image of several pixels was converted from non-empty data
C7_Witness ==
    /\ Decoded
    /\ call.format = RGB565
    /\ Pixels > 1
    /\ Len(call.data) > 0
    /\ IsGray(ret.bytes)

\* the bytes the decoder needs for the whole image: pixels times the source
\* stride, or one block for each 4 x 4 tile
CeilDiv4(n) == CHOOSE q \in 0..n : 4 * q >= n /\ 4 * (q - 1) < n
Required(format, width, height) ==
    CASE format = RGBA8888 -> width * height * 4
      [] format \in PixelFormats -> width * height * SrcStride(format)
      [] OTHER -> CeilDiv4(width) * CeilDiv4(height) * BlockBytes(format)
\* source bytes 0 .. WholeEnd(i)-1 hold every byte of pixel i: the pixel's
\* own bytes for an uncompressed format, its block for a compressed one
WholeEnd(format, width, i) ==
    CASE format = RGBA8888 -> (i + 1) * 4
      [] format \in PixelFormats -> (i + 1) * SrcStride(format)
      [] OTHER -> (((i \div width) \div 4) * CeilDiv4(width) + ((i % width) \div 4) + 1)
                     * BlockBytes(format)

\* C8 as stated: from raw data shorter than the image needs, exactly the
\* pixels (blocks) wholly present are decoded, to the values complete data
\* gives, and every other output byte is 0.
C8_TruncatedDataZeroTail ==
    (Decoded /\ call.format \in BranchFormats
        /\ Len(call.data) < Required(call.format, call.width, call.height)) =>
        LET full == convert_format_to_rgba(
                        RawData(call.seed, Required(call.format, call.width, call.height)),
                        call.width, call.height, call.format)
        IN /\ ret.kind = "bytes"
           /\ Len(ret.bytes) = 4 * Pixels
           /\ \A i \in 0..(Pixels - 1) :
                 PixelAt(ret.bytes, i) =
                    (IF WholeEnd(call.format, call.width, i) <= Len(call.data)
                     THEN PixelAt(full, i) ELSE <<0, 0, 0, 0>>)

(***************************************************************************)
(* Properties of calculate_image_size, checked under SizeSpec.             *)
(***************************************************************************)
Sized == call.op = "calculate_image_size" /\ ret # Pending

\* the least q with d * q >= n
CeilDiv(n, d) == CHOOSE q \in 0..n : d * q >= n /\ d * (q - 1) < n

\* C9: for DXT1, DXT1_ONEBITALPHA, DXT3 and DXT5 the size is
\* ceil(max(4, width) / 4) * ceil(max(4, height) / 4) * bytes_per_block, with
\* 8 bytes a block for the DXT1 family and 16 for DXT3 and DXT5; the size of
\* a 3 x 3 and of a 4 x 4 DXT1 image is 8.
C9_BlockFormatSize ==
    /\ (Sized /\ call.format \in {DXT1, DXT1_ONEBITALPHA}) =>
          ret.value = CeilDiv(Max(4, call.width), 4) * CeilDiv(Max(4, call.height), 4) * 8
    /\ (Sized /\ call.format \in {DXT3, DXT5}) =>
          ret.value = CeilDiv(Max(4, call.width), 4) * CeilDiv(Max(4, call.height), 4) * 16
    /\ (Sized /\ call.format = DXT1 /\ call.width \in {3, 4} /\ call.width = call.height) =>
          ret.value = 8

\* the size of a 3 x 3 DXT1 image was computed
C9_Witness ==
    /\ Sized
    /\ call.format = DXT1
    /\ call.width = 3 /\ call.height = 3
    /\ ret.value = 8

\* bytes per pixel by the width of the format's pixel
OneByteFormats == {I8, P8, A8}
TwoByteFormats == {RGB565, IA88, BGR565, BGRX5551, BGRA4444, BGRA5551, UV88}
ThreeByteFormats == {RGB888, BGR888, RGB888_BLUESCREEN, BGR888_BLUESCREEN}
FourByteFormats ==
    {RGBA8888, ABGR8888, ARGB8888, BGRA8888, BGRX8888, UVWQ8888, UVLX8888}
EightByteFormats == {RGBA16161616F, RGBA16161616}
BytesPerPixel(format) ==
    CASE format \in OneByteFormats -> 1
      [] format \in TwoByteFormats -> 2
      [] format \in ThreeByteFormats -> 3
      [] format \in FourByteFormats -> 4
      [] format \in EightByteFormats -> 8
UncompressedFormats ==
    OneByteFormats \cup TwoByteFormats \cup ThreeByteFormats \cup FourByteFormats
        \cup EightByteFormats

\* C10 as stated: every uncompressed format of the enum has the size
\* width * height * bytes_per_pixel, with 3 bytes for every 24-bit format.
C10_UncompressedSize ==
    (Sized /\ call.format \in UncompressedFormats) =>
        ret.value = call.width * call.height * BytesPerPixel(call.format)

\* C10 amended: every uncompressed format of the size table has the size
\* width * height * bytes_per_pixel (3 bytes for RGB888 and BGR888); the
\* 24-bit formats RGB888_BLUESCREEN and BGR888_BLUESCREEN are not in the
\* table and get the default width * height * 4.
C10_TableFormatSize ==
    /\ (Sized /\ call.format \in
            UncompressedFormats \ {RGB888_BLUESCREEN, BGR888_BLUESCREEN}) =>
          ret.value = call.width * call.height * BytesPerPixel(call.format)
    /\ (Sized /\ call.format \in {RGB888_BLUESCREEN, BGR888_BLUESCREEN}) =>
          ret.value = call.width * call.height * 4

\* the size of a 5 x 3 RGB888 image was computed
C10_Witness ==
    /\ Sized
    /\ call.format = RGB888
    /\ call.width = 5 /\ call.height = 3
    /\ ret.value = 45

(***************************************************************************)
(* Properties of the mip byte ranges of VtfFile.parse, checked under Spec. *)
(***************************************************************************)
\* the declared levels, and those parse extracted (their entry of mip_data
\* is a byte string)
Levels == 0..(vtf.header.mip_count - 1)
Extracted(L) == vtf.mip_data[L + 1] # None

\* the byte range data[RangeStart : RangeEnd] parse computed for level L
RangeStart(L) == vtf.mip_offset[L + 1]
RangeEnd(L) == vtf.mip_offset[L + 1] + LevelBytes(vtf.header, L)

\* the summed sizes of the levels smaller than level L: L+1 .. mip_count-1
SmallerLevelBytes(h, L) == LevelBytesUpTo(h, h.mip_count - 1) - LevelBytesUpTo(h, L)

\* C11 as stated: the range of every extracted level L ends at the file
\* length minus the summed sizes of levels L+1 .. mip_count-1.
C11_RangeEndsBeforeSmallerLevels ==
    vtf.kind = "vtf" =>
        \A L \in Levels :
            Extracted(L) => RangeEnd(L) = Len(data) - SmallerLevelBytes(vtf.header, L)

\* C11 amended: the range of every extracted level L ends at the file length
\* minus the summed sizes of the larger levels 0 .. L-1 (level 0 ends at the
\* end of the file), and the level's bytes are the bytes of that range.
C11_RangeEndsBeforeLargerLevels ==
    vtf.kind = "vtf" =>
        \A L \in Levels :
            Extracted(L) =>
                /\ RangeEnd(L) = Len(data) - LevelBytesUpTo(vtf.header, L - 1)
                /\ vtf.mip_data[L + 1] = SubSeq(data, RangeStart(L) + 1, RangeEnd(L))

\* a container with mip_count = 3 and frame_count = 1 whose three levels
\* were all extracted
C11_Witness ==
    /\ vtf.kind = "vtf"
    /\ vtf.header.mip_count = 3
    /\ vtf.header.frames = 1
    /\ \A L \in Levels : Extracted(L)

\* C12: for any two extracted levels L < M the byte range of the smaller
\* level M lies entirely before the byte range of L, and level 0 is the
\* range nearest the end of the file: it is extracted whenever any level is,
\* it ends at the end of the file, and no range ends after it.
C12_SmallestFirstLargestLast ==
    vtf.kind = "vtf" =>
        /\ \A L, M \in Levels :
              (L < M /\ Extracted(L) /\ Extracted(M)) =>
                  /\ 0 <= RangeStart(M)
                  /\ RangeStart(M) < RangeEnd(M)
                  /\ RangeEnd(M) <= RangeStart(L)
        /\ \A L \in Levels :
              Extracted(L) =>
                  /\ Extracted(0)
                  /\ RangeEnd(L) <= RangeEnd(0)
                  /\ RangeEnd(0) = Len(data)

\* a container with two extracted levels of different sizes
C12_Witness ==
    /\ vtf.kind = "vtf"
    /\ vtf.header.mip_count >= 2
    /\ Extracted(0)
    /\ Extracted(1)
    /\ Len(vtf.mip_data[2]) < Len(vtf.mip_data[1])

\* the file is long enough to hold every declared level
HoldsAllLevels ==
    Len(data) >= LevelBytesUpTo(vtf.header, vtf.header.mip_count - 1)

\* the extracted bytes of levels L .. mip_count-1 in file order, smallest
\* level first
RECURSIVE JoinedLevels(_)
JoinedLevels(L) ==
    IF L >= vtf.header.mip_count THEN <<>>
    ELSE JoinedLevels(L + 1) \o vtf.mip_data[L + 1]

\* C13: for every file long enough to hold all declared levels, every level
\* is extracted, the ranges are pairwise disjoint, consecutive levels adjoin
\* with no gap, and the union is one interval of length sum(level sizes) that
\* ends at the file end: the levels joined are the last bytes of the file.
C13_RangesContiguous ==
    (vtf.kind = "vtf" /\ HoldsAllLevels) =>
        /\ \A L \in Levels : Extracted(L)
        /\ \A L, M \in Levels :
              L # M => (RangeEnd(L) <= RangeStart(M) \/ RangeEnd(M) <= RangeStart(L))
        /\ \A L \in Levels : L + 1 \in Levels => RangeStart(L) = RangeEnd(L + 1)
        /\ vtf.header.mip_count >= 1 =>
              /\ RangeEnd(0) = Len(data)
              /\ RangeStart(vtf.header.mip_count - 1)
                    = Len(data) - LevelBytesUpTo(vtf.header, vtf.header.mip_count - 1)
        /\ JoinedLevels(0) =
              SubSeq(data,
                     Len(data) - LevelBytesUpTo(vtf.header, vtf.header.mip_count - 1) + 1,
                     Len(data))

\* a file holding all three declared levels of two frames each was parsed
C13_Witness ==
    /\ vtf.kind = "vtf"
    /\ HoldsAllLevels
    /\ vtf.header.mip_count = 3
    /\ vtf.header.frames = 2
    /\ Len(JoinedLevels(0)) > Len(vtf.mip_data[1])

(***************************************************************************)
(* Properties of the header fields of VtfFile.parse, checked under Spec.   *)
(***************************************************************************)
\* the versions from 7.2 on
From72On(version_major, version_minor) ==
    version_major > 7 \/ (version_major = 7 /\ version_minor >= 2)

\* C14 as stated: the parsed depth is the 16-bit field at offset 63 exactly
\* for the versions from 7.2 on, and the default 1 for every other version.
C14_DepthReadFrom72On ==
    vtf.kind = "vtf" =>
        vtf.header.depth =
            IF From72On(U32(data, 4), U32(data, 8)) THEN U16(data, 63) ELSE 1

(***************************************************************************)
(* Properties of the RGBA8888 copy and of _decompress_dxt1, checked under  *)
(* DecodeSpec.                                                             *)
(***************************************************************************)
\* C15: decoding raw data of exactly width * height * 4 bytes under format
\* RGBA8888 returns a buffer byte-for-byte equal to the input.
C15_Rgba8888RoundTrip ==
    (Decoded /\ call.format = RGBA8888 /\ Len(call.data) = Pixels * 4) =>
        ret = RetBytes(call.data)

\* a 2 x 4 RGBA8888 image of 32 bytes, not all of one value, was decoded
C15_Witness ==
    /\ Decoded
    /\ call.format = RGBA8888
    /\ call.width = 2 /\ call.height = 4
    /\ Len(call.data) = 32
    /\ \E i, j \in 1..32 : call.data[i] # call.data[j]
    /\ ret.kind = "bytes"

\* what a DXT1 stream holds for its block b: the two endpoints as raw 16-bit
\* little-endian numbers and the 2-bit index of texel (px, py), two bits for
\* each texel of row py in the byte 4 + py of the block
Endpoint0(b) == call.data[8 * b + 1] + 256 * call.data[8 * b + 2]
Endpoint1(b) == call.data[8 * b + 3] + 256 * call.data[8 * b + 4]
TexelIndex(b, px, py) == (call.data[8 * b + 5 + py] \div (4 ^ px)) % 4

\* blocks in a row of the image, and the pixel number of texel (px, py) of
\* block b
BlocksWide == (call.width + 3) \div 4
BlocksHigh == (call.height + 3) \div 4
TexelX(b, px) == (b % BlocksWide) * 4 + px
TexelY(b, py) == (b \div BlocksWide) * 4 + py

\* C16: in _decompress_dxt1, for every block the data holds whole and every
\* in-bounds texel of it: when c0 <= c1 and the texel's index is 3 the pixel
\* is transparent black (0, 0, 0, 0); otherwise (c0 <= c1 with another index,
\* or c0 > c1 with any index) its alpha is 255.
C16_Dxt1PunchThrough ==
    (Decoded /\ call.format \in {DXT1, DXT1_ONEBITALPHA}) =>
        \A b \in 0..(BlocksWide * BlocksHigh - 1) :
            8 * (b + 1) <= Len(call.data) =>
                \A px, py \in 0..3 :
                    (TexelX(b, px) < call.width /\ TexelY(b, py) < call.height) =>
                        LET p == PixelAt(ret.bytes,
                                         TexelY(b, py) * call.width + TexelX(b, px))
                        IN IF Endpoint0(b) <= Endpoint1(b) /\ TexelIndex(b, px, py) = 3
                           THEN p = <<0, 0, 0, 0>>
                           ELSE p[4] = 255

\* a block with equal endpoints was decoded: its texel (0, 0) has index 3
\* and came out transparent, a texel with another index came out opaque
C16_Witness ==
    /\ Decoded
    /\ call.format = DXT1
    /\ call.width >= 2 /\ call.height >= 1
    /\ Len(call.data) >= 8
    /\ Endpoint0(0) = Endpoint1(0)
    /\ TexelIndex(0, 0, 0) = 3
    /\ PixelAt(ret.bytes, 0) = <<0, 0, 0, 0>>
    /\ \E px \in 1..3 :
          /\ px < call.width
          /\ TexelIndex(0, px, 0) # 3
          /\ PixelAt(ret.bytes, px)[4] = 255

\* a block with c0 > c1 was decoded and a texel of index 3 came out opaque
C16_FourColourReached ==
    /\ Decoded
    /\ call.format = DXT1_ONEBITALPHA
    /\ Len(call.data) >= 8
    /\ Endpoint0(0) > Endpoint1(0)
    /\ \E py \in 0..3 :
          /\ py < call.height /\ call.width >= 1
          /\ TexelIndex(0, 0, py) = 3
          /\ PixelAt(ret.bytes, py * call.width)[4] = 255

(***************************************************************************)
(* Properties of VtfFile.convert_to_rgba, checked under Spec.              *)
(***************************************************************************)
\* C17: a call of convert_to_rgba leaves the raw data and the container
\* (every header field, mip_data, thumbnail_data) unchanged, and keeps no
\* state: a call with the same argument as the call before it on the same
\* container returns an equal result.
C17_DecodeKeepsInput ==
    [][/\ vtf.kind = "vtf" => (vtf' = vtf /\ data' = data)
       /\ (/\ call.op = "convert_to_rgba"
           /\ call'.op = "convert_to_rgba"
           /\ call'.force_opaque_alpha = call.force_opaque_alpha) => ret' = ret]_vars

\* level 0 of a container was converted with force_opaque_alpha and gave a
\* buffer that is not the stored level
C17_Witness ==
    /\ vtf.kind = "vtf"
    /\ call.op = "convert_to_rgba"
    /\ call.force_opaque_alpha
    /\ ret.kind = "bytes"
    /\ Len(ret.bytes) > 0
    /\ ret.bytes # vtf.mip_data[1]

\* the header of the file is one parse reads to the end: 80 bytes or more,
\* the magic constant, and two format codes of the enum
ReadableHeader ==
    /\ Len(data) >= 80
    /\ FirstFour(data) = MagicBytes
    /\ S32(data, 52) \in VtfImageFormat
    /\ S32(data, 57) \in VtfImageFormat

\* C18 as stated: every container parse returns has mip_count >= 1 and a
\* non-empty mip list.
C18_MipCountAtLeastOne ==
    vtf.kind = "vtf" => (vtf.header.mip_count >= 1 /\ Len(vtf.mip_data) >= 1)

\* C18 amended: parse accepts every mip_count, 0 included: a readable header
\* gives a container whose mip list has exactly mip_count (the byte at
\* offset 56) entries; for mip_count = 0 the list is empty and
\* convert_to_rgba returns None.
C18_MipCountZeroAccepted ==
    /\ (Parsed /\ ReadableHeader) => vtf.kind = "vtf"
    /\ vtf.kind = "vtf" =>
          /\ vtf.header.mip_count = data[57]
          /\ Len(vtf.mip_data) = data[57]
          /\ (data[57] = 0 /\ call.op = "convert_to_rgba") => ret = RetNone

\* a container with mip_count = 0 was returned and asked for its pixels
C18_Witness ==
    /\ vtf.kind = "vtf"
    /\ vtf.header.mip_count = 0
    /\ vtf.mip_data = <<>>
    /\ call.op = "convert_to_rgba"
    /\ ret = RetNone

\* the dimensions of level L: max(1, width >> L) and max(1, height >> L)
LevelWidth(h, L) == Max(1, h.width \div (2 ^ L))
LevelHeight(h, L) == Max(1, h.height \div (2 ^ L))
LevelFrameBytes(h, L) ==
    calculate_image_size(h.high_res_format, LevelWidth(h, L), LevelHeight(h, L))

\* C19 as stated: the stored byte length of every extracted level L is
\* calculate_image_size(high_res_format, mip_width_L, mip_height_L) multiplied
\* by the header's frame_count.
C19_LengthTimesFrameCount ==
    vtf.kind = "vtf" =>
        \A L \in Levels :
            Extracted(L) =>
                Len(vtf.mip_data[L + 1]) = LevelFrameBytes(vtf.header, L) * vtf.header.frames

\* C19 amended: the stored byte length of every extracted level L is
\* calculate_image_size(high_res_format, max(1, width >> L), max(1, height >> L))
\* multiplied by max(1, frame_count): a header frame count of 0 counts as 1.
C19_LengthTimesFramesAtLeastOne ==
    vtf.kind = "vtf" =>
        \A L \in Levels :
            Extracted(L) =>
                Len(vtf.mip_data[L + 1]) =
                    LevelFrameBytes(vtf.header, L) * Max(1, vtf.header.frames)

\* levels 0 and 2 of a 4 x 4 I8 image were extracted from a file whose
\* header declares a frame count of 0: 16 bytes and 1 byte
C19_Witness ==
    /\ vtf.kind = "vtf"
    /\ vtf.header.width = 4 /\ vtf.header.height = 4
    /\ vtf.header.high_res_format = I8
    /\ vtf.header.mip_count = 3
    /\ vtf.header.frames = 0
    /\ Len(vtf.mip_data[1]) = 16
    /\ Len(vtf.mip_data[3]) = 1

\* header_size + thumb_size, the data_offset parse computes
PixelDataStart(h) == h.header_size + (IF HasThumbnail(h) THEN ThumbSize(h) ELSE 0)

\* C20 as stated: every mip byte range parse extracts starts at or after
\* header_size + thumb_size, so none overlaps the header or the thumbnail.
C20_MipsAfterHeaderAndThumbnail ==
    vtf.kind = "vtf" =>
        \A L \in Levels :
            Extracted(L) => RangeStart(L) >= PixelDataStart(vtf.header)

(***************************************************************************)
(* Properties of the thumbnail of VtfFile.parse, checked under Spec.       *)
(***************************************************************************)
\* the bytes of the file in [header_size, header_size + thumb_size), as many
\* of them as the file holds
ThumbnailRange(h) ==
    LET thumb_size ==
            calculate_image_size(h.low_res_format, h.low_res_width, h.low_res_height)
        held == Max(0, Min(thumb_size, Len(data) - h.header_size))
    IN [j \in 1..held |-> data[h.header_size + j]]

\* C21 as stated: whenever low_res_format is not NONE the thumbnail is the
\* byte range [header_size, header_size + thumb_size); when it is NONE there
\* is no thumbnail.
C21_ThumbnailWhenFormatSet ==
    vtf.kind = "vtf" =>
        vtf.thumbnail_data =
            IF vtf.header.low_res_format # NONE THEN ThumbnailRange(vtf.header) ELSE None

\* C21 amended: the thumbnail is the byte range
\* [header_size, header_size + thumb_size) when low_res_format is not NONE
\* and low_res_width > 0 and low_res_height > 0; otherwise (format NONE, or
\* a side of 0) there is no thumbnail.
C21_ThumbnailWhenFormatAndSidesSet ==
    vtf.kind = "vtf" =>
        vtf.thumbnail_data =
            IF /\ vtf.header.low_res_format # NONE
               /\ vtf.header.low_res_width > 0
               /\ vtf.header.low_res_height > 0
            THEN ThumbnailRange(vtf.header)
            ELSE None

\* a file with a 4 x 4 DXT1 thumbnail of 8 bytes after its 80-byte header
\* was parsed
C21_Witness ==
    /\ vtf.kind = "vtf"
    /\ vtf.header.low_res_format = DXT1
    /\ vtf.header.low_res_width = 4 /\ vtf.header.low_res_height = 4
    /\ vtf.header.header_size = 80
    /\ Len(data) >= 88
    /\ vtf.thumbnail_data = SubSeq(data, 81, 88)

\* a file whose thumbnail format is set and whose thumbnail width is 0 was
\* parsed and has no thumbnail
C21_NoThumbnailForZeroSide ==
    /\ vtf.kind = "vtf"
    /\ vtf.header.low_res_format = DXT1
    /\ vtf.header.low_res_width = 0
    /\ vtf.thumbnail_data = None

(***************************************************************************)
(* Properties of the per-pixel formats and of the block decompressors,     *)
(* checked under DecodeSpec.                                               *)
(***************************************************************************)
\* the bytes of one input pixel of the six per-pixel formats
InputBytes(format) ==
    CASE format \in {BGRA8888, ARGB8888} -> 4
      [] format \in {RGB888, BGR888} -> 3
      [] format \in {I8, A8} -> 1

\* input pixel i of the raw data as in[0], in[1], ...
InputPixel(format, i) ==
    [k \in 0..(InputBytes(format) - 1) |-> call.data[i * InputBytes(format) + k + 1]]

\* the output pixel the remapping of format gives for the input pixel in
Remapped(format, in) ==
    CASE format = BGRA8888 -> <<in[2], in[1], in[0], in[3]>>
      [] format = ARGB8888 -> <<in[1], in[2], in[3], in[0]>>
      [] format = RGB888 -> <<in[0], in[1], in[2], 255>>
      [] format = BGR888 -> <<in[2], in[1], in[0], 255>>
      [] format = I8 -> <<in[0], in[0], in[0], 255>>
      [] format = A8 -> <<255, 255, 255, in[0]>>

\* C22: for BGRA8888, ARGB8888, RGB888, BGR888, I8 and A8 with complete data
\* (at least width * height input pixels), output pixel i is the remapping
\* of input pixel i alone: a reordering of its bytes and the constant 255.
C22_ChannelRemapping ==
    (/\ Decoded
     /\ call.format \in {BGRA8888, ARGB8888, RGB888, BGR888, I8, A8}
     /\ Len(call.data) >= Pixels * InputBytes(call.format)) =>
        /\ ret.kind = "bytes"
        /\ \A i \in 0..(Pixels - 1) :
              PixelAt(ret.bytes, i) = Remapped(call.format, InputPixel(call.format, i))

\* a complete BGR888 image of 2 x 5 pixels was decoded, and its last pixel
\* has a red byte that differs from its blue byte
C22_Witness ==
    /\ Decoded
    /\ call.format = BGR888
    /\ call.width = 2 /\ call.height = 5
    /\ Len(call.data) >= 30
    /\ call.data[28] # call.data[30]
    /\ PixelAt(ret.bytes, 9) = <<call.data[30], call.data[29], call.data[28], 255>>

\* an endpoint as 8-bit channels: R from bits 15..11, G from bits 10..5 and
\* B from bits 4..0, scaled by 255 / 31, 255 / 63 and 255 / 31
Rgb565(e) ==
    <<((e \div 2048) * 255) \div 31,
      (((e \div 32) % 64) * 255) \div 63,
      ((e % 32) * 255) \div 31>>

\* (m * p + n * q) / (m + n) for each channel, opaque
Blend(m, p, n, q) ==
    <<(m * p[1] + n * q[1]) \div (m + n), (m * p[2] + n * q[2]) \div (m + n),
      (m * p[3] + n * q[3]) \div (m + n), 255>>

\* the BC1 palette of endpoints e0 and e1
Bc1Palette(e0, e1) ==
    LET p == Rgb565(e0)
        q == Rgb565(e1)
    IN IF e0 > e1
       THEN <<Blend(1, p, 0, q), Blend(0, p, 1, q), Blend(2, p, 1, q), Blend(1, p, 2, q)>>
       ELSE <<Blend(1, p, 0, q), Blend(0, p, 1, q), Blend(1, p, 1, q), <<0, 0, 0, 0>>>>

\* C23: for DXT1 and DXT1_ONEBITALPHA, every in-bounds texel of every block
\* the data holds whole is the entry of the BC1 palette of the block's
\* endpoints that the texel's two index bits select; with c0 = c1 the palette
\* is three copies of the endpoint colour and transparent black.
C23_Bc1Palette ==
    (Decoded /\ call.format \in {DXT1, DXT1_ONEBITALPHA}) =>
        \A b \in 0..(BlocksWide * BlocksHigh - 1) :
            8 * (b + 1) <= Len(call.data) =>
                /\ \A px, py \in 0..3 :
                      (TexelX(b, px) < call.width /\ TexelY(b, py) < call.height) =>
                          PixelAt(ret.bytes, TexelY(b, py) * call.width + TexelX(b, px))
                              = Bc1Palette(Endpoint0(b), Endpoint1(b))[TexelIndex(b, px, py) + 1]
                /\ Endpoint0(b) = Endpoint1(b) =>
                      LET pal == Bc1Palette(Endpoint0(b), Endpoint1(b))
                      IN /\ pal[2] = pal[1]
                         /\ pal[3] = pal[1]
                         /\ pal[4] = <<0, 0, 0, 0>>

\* a block with c0 > c1 was decoded and its texel (2, 0), of index 2, is the
\* two-to-one blend, which is neither endpoint colour
C23_Witness ==
    /\ Decoded
    /\ call.format = DXT1
    /\ call.width >= 3 /\ call.height >= 1
    /\ Len(call.data) >= 8
    /\ Endpoint0(0) > Endpoint1(0)
    /\ TexelIndex(0, 2, 0) = 2
    /\ PixelAt(ret.bytes, 2) = Blend(2, Rgb565(Endpoint0(0)), 1, Rgb565(Endpoint1(0)))
    /\ PixelAt(ret.bytes, 2) # Blend(1, Rgb565(Endpoint0(0)), 0, Rgb565(Endpoint1(0)))
    /\ PixelAt(ret.bytes, 2) # Blend(0, Rgb565(Endpoint0(0)), 1, Rgb565(Endpoint1(0)))

\* what a DXT3 or DXT5 stream holds for its 16-byte block b: the colour
\* block at offset 8 (two endpoints, then two index bits per texel)
ColourEndpoint0(b) == call.data[16 * b + 9] + 256 * call.data[16 * b + 10]
ColourEndpoint1(b) == call.data[16 * b + 11] + 256 * call.data[16 * b + 12]
ColourIndex(b, px, py) == (call.data[16 * b + 13 + py] \div (4 ^ px)) % 4

\* the i-th 4-bit nibble of the first 8 bytes of block b, low nibble first
AlphaNibble(b, i) == (call.data[16 * b + (i \div 2) + 1] \div (16 ^ (i % 2))) % 16

\* the four-colour interpolated palette {c0, c1, (2*c0+c1)/3, (c0+2*c1)/3}
InterpolatedPalette(e0, e1) ==
    LET p == Rgb565(e0)
        q == Rgb565(e1)
    IN <<Blend(1, p, 0, q), Blend(0, p, 1, q), Blend(2, p, 1, q), Blend(1, p, 2, q)>>

\* the colour of texel (px, py) of block b with alpha a
ColourWithAlpha(b, px, py, a) ==
    LET rgb == InterpolatedPalette(ColourEndpoint0(b), ColourEndpoint1(b))
                   [ColourIndex(b, px, py) + 1]
    IN <<rgb[1], rgb[2], rgb[3], a>>

\* C24: for DXT3, every in-bounds texel i = py * 4 + px of every block the
\* data holds whole has alpha 17 times the i-th nibble of the block's first
\* 8 bytes and the colour its index selects from the four-colour
\* interpolated palette, whether c0 > c1 or c0 <= c1.
C24_Dxt3Decode ==
    (Decoded /\ call.format = DXT3) =>
        \A b \in 0..(BlocksWide * BlocksHigh - 1) :
            16 * (b + 1) <= Len(call.data) =>
                \A px, py \in 0..3 :
                    (TexelX(b, px) < call.width /\ TexelY(b, py) < call.height) =>
                        PixelAt(ret.bytes, TexelY(b, py) * call.width + TexelX(b, px))
                            = ColourWithAlpha(b, px, py, 17 * AlphaNibble(b, py * 4 + px))

\* a DXT3 block with c0 < c1 was decoded: its texel (0, 0) has colour
\* index 3 and came out as the one-to-two blend, not black
C24_Witness ==
    /\ Decoded
    /\ call.format = DXT3
    /\ call.width >= 1 /\ call.height >= 1
    /\ Len(call.data) >= 16
    /\ ColourEndpoint0(0) < ColourEndpoint1(0)
    /\ ColourIndex(0, 0, 0) = 3
    /\ PixelAt(ret.bytes, 0)[1] > 0
    /\ PixelAt(ret.bytes, 0)[4] = 17 * AlphaNibble(0, 0)

\* what a DXT5 stream holds for its block b: the alpha endpoints in bytes 0
\* and 1, and for texel i the three bits [3i, 3i+2] of the little-endian
\* field in bytes 2..7 (they lie in one byte or across two)
AlphaEndpoint0(b) == call.data[16 * b + 1]
AlphaEndpoint1(b) == call.data[16 * b + 2]
AlphaIndex(b, i) ==
    LET first == 16 * b + 3 + ((3 * i) \div 8)
        shift == (3 * i) % 8
        bits == call.data[first] + (IF shift > 5 THEN 256 * call.data[first + 1] ELSE 0)
    IN (bits \div (2 ^ shift)) % 8

\* the alpha palette of endpoints a0 and a1
Bc3AlphaPalette(a0, a1) ==
    IF a0 > a1
    THEN <<a0, a1, (6 * a0 + a1) \div 7, (5 * a0 + 2 * a1) \div 7,
           (4 * a0 + 3 * a1) \div 7, (3 * a0 + 4 * a1) \div 7,
           (2 * a0 + 5 * a1) \div 7, (a0 + 6 * a1) \div 7>>
    ELSE <<a0, a1, (4 * a0 + a1) \div 5, (3 * a0 + 2 * a1) \div 5,
           (2 * a0 + 3 * a1) \div 5, (a0 + 4 * a1) \div 5, 0, 255>>

\* the pixel the claim gives texel (px, py) of DXT5 block b
Bc3Texel(b, px, py) ==
    ColourWithAlpha(b, px, py,
                    Bc3AlphaPalette(AlphaEndpoint0(b), AlphaEndpoint1(b))
                        [AlphaIndex(b, py * 4 + px) + 1])

\* the in-bounds texels of block b, as pairs (px, py)
InBoundsTexels(b) ==
    {t \in (0..3) \X (0..3) :
        TexelX(b, t[1]) < call.width /\ TexelY(b, t[2]) < call.height}
TexelPixel(b, t) == PixelAt(ret.bytes, TexelY(b, t[2]) * call.width + TexelX(b, t[1]))

\* C25 as stated: every in-bounds texel of every whole DXT5 block is the
\* colour of the four-colour palette with the alpha of the alpha palette,
\* and a block with uniform endpoints (a0 = a1 and c0 = c1) decodes to the
\* one colour and the one alpha of its endpoints.
C25_Dxt5UniformBlock ==
    (Decoded /\ call.format = DXT5) =>
        \A b \in 0..(BlocksWide * BlocksHigh - 1) :
            16 * (b + 1) <= Len(call.data) =>
                /\ \A t \in InBoundsTexels(b) : TexelPixel(b, t) = Bc3Texel(b, t[1], t[2])
                /\ (/\ AlphaEndpoint0(b) = AlphaEndpoint1(b)
                    /\ ColourEndpoint0(b) = ColourEndpoint1(b)) =>
                      \A t \in InBoundsTexels(b) :
                          TexelPixel(b, t) =
                              <<Rgb565(ColourEndpoint0(b))[1], Rgb565(ColourEndpoint0(b))[2],
                                Rgb565(ColourEndpoint0(b))[3], AlphaEndpoint0(b)>>

\* C25 amended: every in-bounds texel of every whole DXT5 block is the colour
\* of the four-colour palette with the alpha of the alpha palette; a block
\* with c0 = c1 decodes to the one colour of its endpoint; a block with
\* a0 = a1 gives alpha a0 to the texels of alpha index 0..5, alpha 0 to those
\* of index 6 and alpha 255 to those of index 7.
C25_Dxt5Decode ==
    (Decoded /\ call.format = DXT5) =>
        \A b \in 0..(BlocksWide * BlocksHigh - 1) :
            16 * (b + 1) <= Len(call.data) =>
                /\ \A t \in InBoundsTexels(b) : TexelPixel(b, t) = Bc3Texel(b, t[1], t[2])
                /\ ColourEndpoint0(b) = ColourEndpoint1(b) =>
                      \A t \in InBoundsTexels(b) :
                          /\ TexelPixel(b, t)[1] = Rgb565(ColourEndpoint0(b))[1]
                          /\ TexelPixel(b, t)[2] = Rgb565(ColourEndpoint0(b))[2]
                          /\ TexelPixel(b, t)[3] = Rgb565(ColourEndpoint0(b))[3]
                /\ AlphaEndpoint0(b) = AlphaEndpoint1(b) =>
                      \A t \in InBoundsTexels(b) :
                          TexelPixel(b, t)[4] =
                              CASE AlphaIndex(b, t[2] * 4 + t[1]) = 6 -> 0
                                [] AlphaIndex(b, t[2] * 4 + t[1]) = 7 -> 255
                                [] OTHER -> AlphaEndpoint0(b)

\* a DXT5 block with a0 = a1 and c0 = c1 was decoded: texel (0, 0) has the
\* endpoint alpha and texel (1, 1), of alpha index 6, has alpha 0
C25_Witness ==
    /\ Decoded
    /\ call.format = DXT5
    /\ call.width >= 2 /\ call.height >= 2
    /\ Len(call.data) >= 16
    /\ AlphaEndpoint0(0) = AlphaEndpoint1(0)
    /\ ColourEndpoint0(0) = ColourEndpoint1(0)
    /\ AlphaEndpoint0(0) > 0
    /\ AlphaIndex(0, 5) = 6
    /\ PixelAt(ret.bytes, 0)[4] = AlphaEndpoint0(0)
    /\ PixelAt(ret.bytes, call.width + 1)[4] = 0

\* DXT5 blocks with a0 > a1 and with a0 < a1 were decoded
C25_EightValueReached ==
    Decoded /\ call.format = DXT5 /\ Len(call.data) >= 16 /\ Pixels > 0
        /\ AlphaEndpoint0(0) > AlphaEndpoint1(0)
C25_SixValueReached ==
    Decoded /\ call.format = DXT5 /\ Len(call.data) >= 16 /\ Pixels > 0
        /\ AlphaEndpoint0(0) < AlphaEndpoint1(0)

\* the writes of the decompressor of the call, and the bytes of one block
Writes == BlockWrites(call.format, call.data, call.width, call.height, 0, 0, 0)
BlockSize == IF call.format \in {DXT1, DXT1_ONEBITALPHA} THEN 8 ELSE 16

\* the data holds every block of the image
CompleteBlocks == Len(call.data) >= BlocksWide * BlocksHigh * BlockSize

\* C26: for DXT1, DXT3 and DXT5, width, height >= 1 and complete data, every
\* write is for a texel with x < width and y < height, at out_offset
\* (y * width + x) * 4 and inside the width * height * 4 bytes of the buffer;
\* every such texel is written exactly once; and the pixel at (x, y) of the
\* result is texel (x mod 4, y mod 4) of block (y div 4) * blocks_x + x div 4.
C26_InBoundsTexelsOnly ==
    (/\ Decoded
     /\ call.format \in {DXT1, DXT1_ONEBITALPHA, DXT3, DXT5}
     /\ call.width >= 1 /\ call.height >= 1
     /\ CompleteBlocks) =>
        LET stores == Writes
        IN /\ \A k \in 1..Len(stores) :
                 /\ stores[k].x < call.width
                 /\ stores[k].y < call.height
                 /\ stores[k].out_offset = (stores[k].y * call.width + stores[k].x) * 4
                 /\ stores[k].out_offset + 4 <= call.width * call.height * 4
           /\ \A x \in 0..(call.width - 1), y \in 0..(call.height - 1) :
                 /\ Cardinality({k \in 1..Len(stores) :
                                    stores[k].x = x /\ stores[k].y = y}) = 1
                 /\ PixelAt(ret.bytes, y * call.width + x) =
                       Texel(call.format, call.data,
                             ((y \div 4) * BlocksWide + (x \div 4)) * BlockSize,
                             (y % 4) * 4 + (x % 4))

\* a 5 x 5 DXT1 image was decoded from its four blocks: 25 texels written,
\* the other 39 of the 64 decoded texels skipped
C26_Witness ==
    /\ Decoded
    /\ call.format = DXT1
    /\ call.width = 5 /\ call.height = 5
    /\ Len(call.data) >= 32
    /\ Len(Writes) = 25
    /\ Len(ret.bytes) = 100

\* the other of the two DXT1 format codes
OtherDxt1(format) == IF format = DXT1 THEN DXT1_ONEBITALPHA ELSE DXT1

\* C27: for every raw buffer, width and height, _convert_format_to_rgba
\* returns under DXT1 and under DXT1_ONEBITALPHA the same output: what a
\* call under one of the two codes returned is what the call with the same
\* arguments under the other code returns.
C27_Dxt1CodesDecodeAlike ==
    (Decoded /\ call.format \in {DXT1, DXT1_ONEBITALPHA}) =>
        ret = RetBytes(convert_format_to_rgba(call.data, call.width, call.height,
                                              OtherDxt1(call.format)))

\* a block with c0 <= c1 was decoded under plain DXT1 and its texel (0, 0),
\* of index 3, came out transparent as under DXT1_ONEBITALPHA
C27_Witness ==
    /\ Decoded
    /\ call.format = DXT1
    /\ call.width >= 1 /\ call.height >= 1
    /\ Len(call.data) >= 8
    /\ Endpoint0(0) <= Endpoint1(0)
    /\ TexelIndex(0, 0, 0) = 3
    /\ PixelAt(ret.bytes, 0) = <<0, 0, 0, 0>>
    /\ ret.bytes = convert_format_to_rgba(call.data, call.width, call.height,
                                          DXT1_ONEBITALPHA)

(***************************************************************************)
(* Further properties of the mip levels of VtfFile.parse, checked under    *)
(* Spec.                                                                   *)
(***************************************************************************)
\* the file is at least as long as level 0 with all its frames
HoldsLevel0 ==
    Len(data) >= LevelFrameBytes(vtf.header, 0) * Max(1, vtf.header.frames)

\* C28: in any container parse returns, the extracted levels are a prefix of
\* the level indices (an absent level is followed by absent levels only), and
\* level 0 is present, and is what get_largest_mip_data returns, exactly
\* when mip_count >= 1 and the file length is at least
\* size(level 0) * max(1, frame_count).
C28_ExtractedLevelsArePrefix ==
    vtf.kind = "vtf" =>
        /\ \A L, M \in Levels : (L < M /\ ~Extracted(L)) => ~Extracted(M)
        /\ (Len(vtf.mip_data) >= 1 /\ Extracted(0))
              <=> (vtf.header.mip_count >= 1 /\ HoldsLevel0)
        /\ (get_largest_mip_data(vtf) # None)
              <=> (vtf.header.mip_count >= 1 /\ HoldsLevel0)

\* a container with three declared levels of which the first two were
\* extracted and the third was not
C28_Witness ==
    /\ vtf.kind = "vtf"
    /\ vtf.header.mip_count = 3
    /\ Extracted(0)
    /\ Extracted(1)
    /\ ~Extracted(2)

\* a container with declared levels whose level 0 is longer than the file
C28_Level0AbsentReached ==
    /\ vtf.kind = "vtf"
    /\ vtf.header.mip_count >= 2
    /\ ~HoldsLevel0
    /\ \A L \in Levels : ~Extracted(L)

(***************************************************************************)
(* ExportSpec: one call of convert_vtf_to_png on a file, with or without   *)
(* PIL installed.  An image is its size and its RGBA bytes, rows from the  *)
(* top row down; a PNG file is the image it holds, a TGA file its bytes.   *)
(***************************************************************************)
\* VtfFile.load: the container, or None when parse returns None or raises
load(d) ==
    LET v == parse(d)
    IN IF v.kind = "raised" THEN ParseNone(v.read_end) ELSE v

\* Image.frombytes('RGBA', (width, height), rgba_data): the first row of the
\* buffer is the top row
frombytes(width, height, rgba_data) ==
    [width |-> width, height |-> height, rows |-> rgba_data]

\* img.transpose(Image.FLIP_TOP_BOTTOM)
FLIP_TOP_BOTTOM(img) ==
    LET row_bytes == img.width * 4
    IN [img EXCEPT !.rows =
           [j \in 1..Len(img.rows) |->
               img.rows[(img.height - 1 - ((j - 1) \div row_bytes)) * row_bytes
                           + ((j - 1) % row_bytes) + 1]]]

\* the 18-byte header save_tga writes
TgaHeader(width, height) ==
    [j \in 1..18 |->
        CASE j - 1 = 2 -> 2
          [] j - 1 = 12 -> width % 256
          [] j - 1 = 13 -> Shr(width, 8) % 256
          [] j - 1 = 14 -> height % 256
          [] j - 1 = 15 -> Shr(height, 8) % 256
          [] j - 1 = 16 -> 32
          [] j - 1 = 17 -> 40
          [] OTHER -> 0]

\* the bgra buffer of save_tga: bytes 0 and 2 of every pixel exchanged
TgaPixels(rgba_data) ==
    [j \in 1..Len(rgba_data) |->
        CASE (j - 1) % 4 = 0 -> rgba_data[j + 2]
          [] (j - 1) % 4 = 2 -> rgba_data[j - 2]
          [] OTHER -> rgba_data[j]]

\* the bytes save_tga writes to the file
save_tga(width, height, rgba_data) == TgaHeader(width, height) \o TgaPixels(rgba_data)

\* the file convert_vtf_to_png writes for the container v and the path it
\* returns (its extension)
Exported(v, has_pil) ==
    LET rgba_data == convert_to_rgba(v, FALSE)
    IN IF rgba_data.kind = "None" THEN RetNone
       ELSE IF has_pil
            THEN [kind |-> "path", ext |-> "png",
                  file |-> FLIP_TOP_BOTTOM(frombytes(v.header.width, v.header.height,
                                                     rgba_data.bytes))]
            ELSE [kind |-> "path", ext |-> "tga",
                  file |-> save_tga(v.header.width, v.header.height, rgba_data.bytes)]

\* convert_vtf_to_png(vtf_path) for a file of bytes d
convert_vtf_to_png(d, has_pil) ==
    IF load(d).kind = "None" THEN RetNone ELSE Exported(load(d), has_pil)

\* the files of ExportSpec: the headers of Spec that declare an image of at
\* least one pixel
ExportHeaders ==
    {f \in MipHeaders \cup BadSignatureHeaders : f.width >= 1 /\ f.height >= 1}

InitExport ==
    /\ \E f \in ExportHeaders, n \in FileLengths : data = FileBytes(f, n)
    /\ vtf = Unparsed
    /\ \E has_pil \in BOOLEAN : call = [op |-> "convert_vtf_to_png", has_pil |-> has_pil]
    /\ ret = Pending

ConvertVtfToPng ==
    /\ call.op = "convert_vtf_to_png"
    /\ ret = Pending
    /\ vtf' = load(data)
    /\ ret' = convert_vtf_to_png(data, call.has_pil)
    /\ UNCHANGED <<data, call>>

NextExport == ConvertVtfToPng

ExportSpec == InitExport /\ [][NextExport]_vars

(***************************************************************************)
(* Properties of convert_vtf_to_png, checked under ExportSpec.             *)
(***************************************************************************)
\* the RGBA rows of a written file as a viewer shows them, from the top row
\* down: a PNG stores them so; a TGA stores BGRA rows from the top down when
\* bit 5 of its descriptor byte is set and from the bottom up otherwise
ShownRows(ext, file) ==
    IF ext = "png" THEN file.rows
    ELSE LET width == file[13] + 256 * file[14]
             height == file[15] + 256 * file[16]
             top_down == (file[18] \div 32) % 2 = 1
             stored == [j \in 1..(Len(file) - 18) |->
                           CASE (j - 1) % 4 = 0 -> file[18 + j + 2]
                             [] (j - 1) % 4 = 2 -> file[18 + j - 2]
                             [] OTHER -> file[18 + j]]
         IN IF top_down THEN stored
            ELSE FLIP_TOP_BOTTOM([width |-> width, height |-> height,
                                  rows |-> stored]).rows

\* C29 as stated: the rows of the file a call wrote appear in the same
\* top-to-bottom order as the rows of the file the other output path writes
\* for the same decoded image.
C29_SameRowOrderOnBothPaths ==
    (call.op = "convert_vtf_to_png" /\ ret.kind = "path") =>
        LET other == Exported(vtf, ~call.has_pil)
        IN ShownRows(ret.ext, ret.file) = ShownRows(other.ext, other.file)

(***************************************************************************)
(* Properties of the frame count of VtfFile.parse, checked under Spec.     *)
(***************************************************************************)
\* the 16-bit frame count the header of the file holds at offset 24
RawFrames == data[25] + 256 * data[26]

\* C30: the stored frames field is the raw header value, 0 included; a
\* header frame count of 0 counts as 1 for the mip byte lengths: each
\* extracted level L then has the length of one frame and starts at the file
\* length minus the one-frame sizes of levels 0 .. L.
C30_ZeroFramesCountAsOne ==
    vtf.kind = "vtf" =>
        /\ vtf.header.frames = RawFrames
        /\ RawFrames = 0 =>
              \A L \in Levels :
                  Extracted(L) =>
                      /\ Len(vtf.mip_data[L + 1]) = LevelFrameBytes(vtf.header, L)
                      /\ (L = 0 => RangeStart(L) = Len(data) - LevelFrameBytes(vtf.header, 0))
                      /\ (L > 0 => RangeStart(L)
                                      = RangeStart(L - 1) - LevelFrameBytes(vtf.header, L))

\* a file whose header holds frame count 0 was parsed: the field is 0 and
\* two levels of one frame each were extracted
C30_Witness ==
    /\ vtf.kind = "vtf"
    /\ RawFrames = 0
    /\ vtf.header.frames = 0
    /\ vtf.header.mip_count >= 2
    /\ Extracted(0)
    /\ Extracted(1)
    /\ Len(vtf.mip_data[1]) = LevelFrameBytes(vtf.header, 0)
    /\ Len(vtf.mip_data[1]) > 0

====
